---- MODULE Spec2Model ----
(***************************************************************************)
(* Model of src/switchroot/ostree-remount.c: the boot-time helper that    *)
(* brings /sysroot, /etc and /var into their read-only / read-write state.*)
(* The kernel mount table is the environment; every system call result is *)
(* an input of the step that issues the call.                             *)
(***************************************************************************)
EXTENDS Integers, Sequences, FiniteSets, TLC

\* Number of successive do_remount invocations made by the call driver.
MaxCalls == 2

Root == "/"
Sysroot == "/sysroot"
Etc == "/etc"
Var == "/var"
Targets == {Sysroot, Etc, Var}
Paths == {Root} \cup Targets

\* Superblocks: the deployment filesystem (shared by /, /sysroot, /etc) and
\* a separate filesystem that /var may live on.
FS == {"os", "varfs"}

\* What lstat/statvfs find at a target path.
Kinds == {"missing", "symlink", "nostatvfs", "dir", "mount"}

\* Results of mount(2): success, EINVAL, or any other errno.
Errnos == {"OK", "EINVAL", "EOTHER"}

\* States of /ostree/repo/config.
Configs == {"absent", "unparsable", "nokey", "badvalue", "false", "true"}

EXIT_SUCCESS == 0
EXIT_FAILURE == 1
Running == -1

MS_REMOUNT == "MS_REMOUNT"
MS_SILENT == "MS_SILENT"
MS_RDONLY == "MS_RDONLY"
MS_REC == "MS_REC"
MS_PRIVATE == "MS_PRIVATE"
MS_BIND == "MS_BIND"

VARIABLES
  pc,               \* position of the process
  kind,             \* [Targets -> Kinds]
  fsOf,             \* [Paths -> FS] superblock behind each mount
  mntRO,            \* [Paths -> BOOLEAN] per-mount read-only flag
  sbRO,             \* [FS -> BOOLEAN] superblock read-only flag
  config,           \* state of the repository configuration file
  sysroot_readonly, \* main's local
  marker,           \* times /run/ostree-booted was touched
  calls,            \* mount(2) calls issued, in order
  requests,         \* do_remount invocations, in order
  stdout,           \* lines written to standard output
  stderr,           \* lines written to standard error
  status            \* exit status, Running while the process lives

vars == <<pc, kind, fsOf, mntRO, sbRO, config, sysroot_readonly, marker,
          calls, requests, stdout, stderr, status>>

env == <<kind, fsOf, config>>

----------------------------------------------------------------------------
(* Environment: what the kernel reports and does. *)

\* The mount whose flags statvfs(path) reports.
MountOf(path) == IF path = Root \/ kind[path] = "mount" THEN path ELSE Root

\* f_flag & ST_RDONLY as returned by statvfs(path).  statvfs follows a
\* symbolic link: mntRO of a link is the flag of the mount it resolves into.
ST_RDONLY(path) ==
  IF path # Root /\ kind[path] = "symlink"
    THEN mntRO[path]
    ELSE mntRO[MountOf(path)] \/ sbRO[fsOf[MountOf(path)]]

\* Possible results of mount(target, target, NULL, MS_REMOUNT|..., NULL).
RemountResults(target) ==
  IF kind[target] \in {"mount", "symlink"} THEN Errnos ELSE Errnos \ {"OK"}

\* Possible results of mount("none", "/sysroot", NULL, MS_REC|MS_PRIVATE, NULL).
PrivatizeResults ==
  IF kind[Sysroot] \in {"mount", "symlink"} THEN Errnos ELSE Errnos \ {"OK"}

\* Possible results of mount("/etc", "/etc", NULL, MS_BIND, NULL).
BindResults ==
  IF kind[Etc] = "missing" THEN Errnos \ {"OK"} ELSE Errnos

----------------------------------------------------------------------------
(* External collaborators of ostree-mount-util.h. *)

path_is_on_readonly_fs(path) == ST_RDONLY(path)

\* One more invocation of the marker step; creating the marker is
\* idempotent and has no failure that reaches the caller.
touch_run_ostree(n) == n + 1

----------------------------------------------------------------------------
(* do_remount *)

ModeStr_Inverted(writable) == IF writable THEN "ro" ELSE "rw"

\* writable ? "rw" : "ro"
ModeStr(writable) == IF writable THEN "rw" ELSE "ro"

\* printf ("Remounted %s: %s\n", writable ? "rw" : "ro", target)
RemountedLine(target, writable) ==
  <<"Remounted ", ModeStr(writable), ": ", target>>

\* err (EXIT_FAILURE, "failed to remount(%s) %s", writable ? "rw" : "ro", target)
RemountErrLine(target, writable) ==
  <<"failed to remount(", ModeStr(writable), ") ", target>>

RemountFlags_RdonlyWhenWritable(writable) ==
  {MS_REMOUNT, MS_SILENT} \cup (IF writable THEN {MS_RDONLY} ELSE {})

RemountFlags(writable) ==
  {MS_REMOUNT, MS_SILENT} \cup (IF ~writable THEN {MS_RDONLY} ELSE {})

NoEffect(target, writable, outcome) ==
  [outcome |-> outcome, call |-> <<>>, out |-> <<>>, err |-> <<>>,
   fatal |-> FALSE, mntRO |-> mntRO, sbRO |-> sbRO]

\* lstat (target, &stbuf) < 0
LstatFails(target) == kind[target] = "missing"

S_ISLNK_Never(target) == FALSE

\* S_ISLNK (stbuf.st_mode)
S_ISLNK(target) == kind[target] = "symlink"

StatvfsFails_Never(target) == FALSE

\* statvfs (target, &stvfsbuf) == -1
StatvfsFails(target) == kind[target] = "nostatvfs"

AlreadyInState_Never(target, writable) == FALSE

AlreadyInState_Inverted(target, writable) == writable # ~ST_RDONLY(target)

\* writable == currently_writable
AlreadyInState(target, writable) ==
  LET currently_writable == ~ST_RDONLY(target)
  IN writable = currently_writable

RemountCall(target, writable, mres) ==
  [source |-> target, target |-> target, flags |-> RemountFlags(writable),
   res |-> mres]

Fatal(target, writable, mres) ==
  [outcome |-> "FatalError", call |-> <<RemountCall(target, writable, mres)>>,
   out |-> <<>>, err |-> <<RemountErrLine(target, writable)>>,
   fatal |-> TRUE, mntRO |-> mntRO, sbRO |-> sbRO]

Tolerated_Prints(target, writable, mres) ==
  [outcome |-> "NoOpNotAMountPoint",
   call |-> <<RemountCall(target, writable, mres)>>,
   out |-> <<RemountedLine(target, writable)>>, err |-> <<>>,
   fatal |-> FALSE, mntRO |-> mntRO, sbRO |-> sbRO]

Tolerated(target, writable, mres) ==
  [outcome |-> "NoOpNotAMountPoint",
   call |-> <<RemountCall(target, writable, mres)>>,
   out |-> <<>>, err |-> <<>>,
   fatal |-> FALSE, mntRO |-> mntRO, sbRO |-> sbRO]

MountFailed_EinvalFatal(target, writable, mres) ==
  Fatal(target, writable, mres)

MountFailed_ErrReturns(target, writable, mres) ==
  IF mres # "EINVAL"
    THEN [Fatal(target, writable, mres) EXCEPT !.fatal = FALSE]
    ELSE Tolerated(target, writable, mres)

\* The branch taken when mount returned < 0 with errno mres.
MountFailed(target, writable, mres) ==
  IF mres # "EINVAL"
    THEN Fatal(target, writable, mres)
    ELSE Tolerated(target, writable, mres)

\* mount succeeded: the kernel clears or sets the read-only flag of the mount
\* and of its superblock, and the status line is printed.
Applied(target, writable, mres) ==
  [outcome |-> "Applied", call |-> <<RemountCall(target, writable, mres)>>,
   out |-> <<RemountedLine(target, writable)>>, err |-> <<>>,
   fatal |-> FALSE,
   mntRO |-> [mntRO EXCEPT ![target] = ~writable],
   sbRO |-> [sbRO EXCEPT ![fsOf[target]] = ~writable]]

\* The result of do_remount (target, writable) when the mount call, if one is
\* issued, returns mres.
do_remount(target, writable, mres) ==
  IF LstatFails(target)
    THEN NoEffect(target, writable, "NoOpLstatFailed")
  ELSE IF S_ISLNK(target)
    THEN NoEffect(target, writable, "NoOpSkippedSymlink")
  ELSE IF StatvfsFails(target)
    THEN NoEffect(target, writable, "NoOpStatvfsFailed")
  ELSE IF AlreadyInState(target, writable)
    THEN NoEffect(target, writable, "NoOpAlreadyDesiredState")
  ELSE IF mres # "OK"
    THEN MountFailed(target, writable, mres)
  ELSE Applied(target, writable, mres)

Request(target, writable, r) ==
  [target |-> target, writable |-> writable, outcome |-> r.outcome,
   called |-> r.call # <<>>]

\* The state change of one do_remount invocation; next is the position the
\* caller continues at when the process was not terminated.
DoRemountStep(target, writable, mres, next) ==
  LET r == do_remount(target, writable, mres) IN
  /\ requests' = Append(requests, Request(target, writable, r))
  /\ calls' = calls \o r.call
  /\ stdout' = stdout \o r.out
  /\ stderr' = stderr \o r.err
  /\ mntRO' = r.mntRO
  /\ sbRO' = r.sbRO
  /\ pc' = IF r.fatal THEN "exited" ELSE next
  /\ status' = IF r.fatal THEN EXIT_FAILURE ELSE status

----------------------------------------------------------------------------
(* sysroot_is_configured_ro *)

IgnoringLine ==
  <<"Ignoring sysroot.readonly config; see https://github.com/coreos/fedora-coreos-tracker/issues/488.">>

sysroot_is_configured_ro_Honour(cfg) ==
  IF cfg = "true" THEN [ret |-> TRUE, out |-> <<>>]
  ELSE [ret |-> FALSE, out |-> <<>>]

sysroot_is_configured_ro_NoOverride(cfg) ==
  IF cfg = "absent" THEN [ret |-> FALSE, out |-> <<>>]
  ELSE IF cfg = "unparsable" THEN [ret |-> FALSE, out |-> <<>>]
  ELSE IF cfg = "true" THEN [ret |-> TRUE, out |-> <<IgnoringLine>>]
  ELSE [ret |-> FALSE, out |-> <<>>]

sysroot_is_configured_ro(cfg) ==
  IF cfg = "absent" THEN [ret |-> FALSE, out |-> <<>>]
  ELSE IF cfg = "unparsable" THEN [ret |-> FALSE, out |-> <<>>]
  ELSE IF cfg = "true" THEN [ret |-> FALSE, out |-> <<IgnoringLine>>]
  ELSE [ret |-> FALSE, out |-> <<>>]

----------------------------------------------------------------------------
(* Initial states *)

InitEnv ==
  /\ kind \in [Targets -> Kinds]
  /\ fsOf \in [Paths -> FS]
  /\ fsOf[Root] = "os" /\ fsOf[Sysroot] = "os" /\ fsOf[Etc] = "os"
  /\ kind[Var] # "mount" => fsOf[Var] = "os"
  /\ mntRO \in [Paths -> BOOLEAN]
  /\ \A t \in Targets : kind[t] \notin {"mount", "symlink"} => mntRO[t] = FALSE
  /\ sbRO \in [FS -> BOOLEAN]
  /\ (\A p \in Paths : fsOf[p] # "varfs") => sbRO["varfs"] = FALSE

InitLogs ==
  /\ sysroot_readonly = FALSE
  /\ marker = 0
  /\ calls = <<>>
  /\ requests = <<>>
  /\ stdout = <<>>
  /\ stderr = <<>>
  /\ status = Running

Init ==
  /\ InitEnv
  /\ config \in Configs
  /\ InitLogs
  /\ pc = "touch"

----------------------------------------------------------------------------
(* main *)

TouchRunOstree_Skipped ==
  /\ pc = "touch"
  /\ marker' = marker
  /\ pc' = "privatize"
  /\ UNCHANGED <<env, mntRO, sbRO, sysroot_readonly, calls, requests,
                 stdout, stderr, status>>

\* touch_run_ostree (): the first statement of main.
TouchRunOstree ==
  /\ pc = "touch"
  /\ marker' = touch_run_ostree(marker)
  /\ pc' = "privatize"
  /\ UNCHANGED <<env, mntRO, sbRO, sysroot_readonly, calls, requests,
                 stdout, stderr, status>>

PrivatizeWarning == <<"warning: While remounting /sysroot MS_PRIVATE">>

Privatize_Fatal ==
  /\ pc = "privatize"
  /\ \E res \in PrivatizeResults :
       /\ calls' = Append(calls, [source |-> "none", target |-> Sysroot,
                                  flags |-> {MS_REC, MS_PRIVATE}, res |-> res])
       /\ stderr' = IF res # "OK" THEN Append(stderr, PrivatizeWarning)
                                  ELSE stderr
       /\ pc' = IF res # "OK" THEN "exited" ELSE "probe"
       /\ status' = IF res # "OK" THEN EXIT_FAILURE ELSE status
  /\ UNCHANGED <<env, mntRO, sbRO, sysroot_readonly, marker, requests,
                 stdout>>

Privatize ==
  /\ pc = "privatize"
  /\ \E res \in PrivatizeResults :
       /\ calls' = Append(calls, [source |-> "none", target |-> Sysroot,
                                  flags |-> {MS_REC, MS_PRIVATE}, res |-> res])
       /\ stderr' = IF res # "OK" THEN Append(stderr, PrivatizeWarning)
                                  ELSE stderr
  /\ pc' = "probe"
  /\ UNCHANGED <<env, mntRO, sbRO, sysroot_readonly, marker, requests,
                 stdout, status>>

EarlyExitCheck_NoExit ==
  /\ pc = "probe"
  /\ pc' = "policy"
  /\ UNCHANGED <<env, mntRO, sbRO, sysroot_readonly, marker, calls, requests,
                 stdout, stderr, status>>

EarlyExitCheck ==
  /\ pc = "probe"
  /\ IF path_is_on_readonly_fs(Root)
       THEN pc' = "exited" /\ status' = EXIT_SUCCESS
       ELSE pc' = "policy" /\ status' = status
  /\ UNCHANGED <<env, mntRO, sbRO, sysroot_readonly, marker, calls, requests,
                 stdout, stderr>>

PolicyLookup ==
  /\ pc = "policy"
  /\ LET r == sysroot_is_configured_ro(config) IN
       /\ sysroot_readonly' = r.ret
       /\ stdout' = stdout \o r.out
  /\ pc' = "sysroot"
  /\ UNCHANGED <<env, mntRO, sbRO, marker, calls, requests, stderr, status>>

RemountSysroot_NotNegated ==
  /\ pc = "sysroot"
  /\ \E mres \in RemountResults(Sysroot) :
       DoRemountStep(Sysroot, sysroot_readonly, mres, "etc")
  /\ UNCHANGED <<env, sysroot_readonly, marker>>

RemountSysroot ==
  /\ pc = "sysroot"
  /\ \E mres \in RemountResults(Sysroot) :
       DoRemountStep(Sysroot, ~sysroot_readonly, mres, "etc")
  /\ UNCHANGED <<env, sysroot_readonly, marker>>

EtcBindErrLine == <<"failed to make /etc a bind mount">>

EtcFixup_RemountFirst ==
  /\ pc = "etc"
  /\ IF sysroot_readonly
       THEN \E mres \in RemountResults(Etc) :
              LET r == do_remount(Etc, TRUE, mres) IN
              IF r.fatal
                THEN /\ requests' = Append(requests, Request(Etc, TRUE, r))
                     /\ calls' = calls \o r.call
                     /\ stderr' = stderr \o r.err
                     /\ pc' = "exited"
                     /\ status' = EXIT_FAILURE
                     /\ UNCHANGED <<kind, stdout, mntRO, sbRO>>
                ELSE \E bres \in BindResults :
                       LET bcall == [source |-> Etc, target |-> Etc,
                                     flags |-> {MS_BIND}, res |-> bres] IN
                       /\ kind' = IF bres = "OK"
                                    THEN [kind EXCEPT
                                            ![Etc] = IF @ = "dir" THEN "mount"
                                                                  ELSE @]
                                    ELSE kind
                       /\ requests' = Append(requests, Request(Etc, TRUE, r))
                       /\ calls' = Append(calls \o r.call, bcall)
                       /\ stdout' = stdout \o r.out
                       /\ stderr' = IF bres # "OK"
                                      THEN Append(stderr, EtcBindErrLine)
                                      ELSE stderr
                       /\ mntRO' = r.mntRO
                       /\ sbRO' = r.sbRO
                       /\ pc' = IF bres # "OK" THEN "exited" ELSE "var"
                       /\ status' = IF bres # "OK" THEN EXIT_FAILURE
                                                   ELSE status
       ELSE /\ pc' = "var"
            /\ UNCHANGED <<kind, calls, requests, stdout, stderr, mntRO, sbRO,
                           status>>
  /\ UNCHANGED <<fsOf, config, sysroot_readonly, marker>>

\* if (sysroot_readonly) { bind-mount /etc on itself; do_remount ("/etc", true); }
EtcFixup ==
  /\ pc = "etc"
  /\ IF sysroot_readonly
       THEN \E bres \in BindResults :
              LET bcall == [source |-> Etc, target |-> Etc,
                            flags |-> {MS_BIND}, res |-> bres] IN
              IF bres # "OK"
                THEN /\ calls' = Append(calls, bcall)
                     /\ stderr' = Append(stderr, EtcBindErrLine)
                     /\ pc' = "exited"
                     /\ status' = EXIT_FAILURE
                     /\ UNCHANGED <<kind, requests, stdout, mntRO, sbRO>>
                ELSE \E mres \in Errnos :
                       LET r == do_remount(Etc, TRUE, mres) IN
                       /\ kind' = [kind EXCEPT
                                    ![Etc] = IF @ = "dir" THEN "mount" ELSE @]
                       /\ requests' = Append(requests, Request(Etc, TRUE, r))
                       /\ calls' = Append(calls, bcall) \o r.call
                       /\ stdout' = stdout \o r.out
                       /\ stderr' = stderr \o r.err
                       /\ mntRO' = r.mntRO
                       /\ sbRO' = r.sbRO
                       /\ pc' = IF r.fatal THEN "exited" ELSE "var"
                       /\ status' = IF r.fatal THEN EXIT_FAILURE ELSE status
       ELSE /\ pc' = "var"
            /\ UNCHANGED <<kind, calls, requests, stdout, stderr, mntRO, sbRO,
                           status>>
  /\ UNCHANGED <<fsOf, config, sysroot_readonly, marker>>

RemountVar_Policy ==
  /\ pc = "var"
  /\ \E mres \in RemountResults(Var) :
       DoRemountStep(Var, sysroot_readonly, mres, "exit")
  /\ UNCHANGED <<env, sysroot_readonly, marker>>

RemountVar ==
  /\ pc = "var"
  /\ \E mres \in RemountResults(Var) :
       DoRemountStep(Var, TRUE, mres, "exit")
  /\ UNCHANGED <<env, sysroot_readonly, marker>>

ExitSuccess_Failure ==
  /\ pc = "exit"
  /\ pc' = "exited"
  /\ status' = EXIT_FAILURE
  /\ UNCHANGED <<env, mntRO, sbRO, sysroot_readonly, marker, calls, requests,
                 stdout, stderr>>

ExitSuccess ==
  /\ pc = "exit"
  /\ pc' = "exited"
  /\ status' = EXIT_SUCCESS
  /\ UNCHANGED <<env, mntRO, sbRO, sysroot_readonly, marker, calls, requests,
                 stdout, stderr>>

Next ==
  \/ TouchRunOstree
  \/ Privatize
  \/ EarlyExitCheck
  \/ PolicyLookup
  \/ RemountSysroot
  \/ EtcFixup
  \/ RemountVar
  \/ ExitSuccess

Spec == Init /\ [][Next]_vars

\* The process is scheduled until it exits: every system call returns.
FairSpec == Spec /\ WF_vars(Next)

----------------------------------------------------------------------------
(* Driver for main's remount sequence (lines 135-160): entered past the    *)
(* early-exit check with either value of the local sysroot_readonly, so    *)
(* that both arms of "if (sysroot_readonly)" are exercised.                *)

InitPolicy ==
  /\ InitEnv
  /\ ~path_is_on_readonly_fs(Root)
  /\ config = "absent"
  /\ sysroot_readonly \in BOOLEAN
  /\ marker = 1
  /\ calls = <<>>
  /\ requests = <<>>
  /\ stdout = <<>>
  /\ stderr = <<>>
  /\ status = Running
  /\ pc = "sysroot"

NextPolicy ==
  \/ RemountSysroot
  \/ EtcFixup
  \/ RemountVar
  \/ ExitSuccess

SpecPolicy == InitPolicy /\ [][NextPolicy]_vars

----------------------------------------------------------------------------
(* Call driver for do_remount: one target and one desired writability,     *)
(* requested MaxCalls times in succession with nothing else touching the   *)
(* mount table in between.                                                 *)

InitRemount ==
  /\ InitEnv
  /\ config = "absent"
  /\ InitLogs
  /\ pc = "call"

AfterCall == IF Len(requests) + 1 >= MaxCalls THEN "returned" ELSE "call"

CallFirst ==
  /\ pc = "call"
  /\ requests = <<>>
  /\ \E target \in Targets, writable \in BOOLEAN :
       \E mres \in RemountResults(target) :
         DoRemountStep(target, writable, mres, AfterCall)
  /\ UNCHANGED <<env, sysroot_readonly, marker>>

CallAgain ==
  /\ pc = "call"
  /\ requests # <<>>
  /\ LET prev == requests[Len(requests)] IN
       \E mres \in RemountResults(prev.target) :
         DoRemountStep(prev.target, prev.writable, mres, AfterCall)
  /\ UNCHANGED <<env, sysroot_readonly, marker>>

NextRemount ==
  \/ CallFirst
  \/ CallAgain

SpecRemount == InitRemount /\ [][NextRemount]_vars

----------------------------------------------------------------------------
(* Vocabulary of the properties *)

Exited == pc = "exited"

IsRemount(c) == MS_REMOUNT \in c.flags
IsBind(c) == MS_BIND \in c.flags
IsPrivatize(c) ==
  c.source = "none" /\ c.target = Sysroot /\ c.flags = {MS_REC, MS_PRIVATE}

\* A "Remounted" status line that names path t.
RemountedLineFor(l, t) ==
  Len(l) = 4 /\ l[1] = "Remounted " /\ t \in {l[2], l[4]}

RemountedLines == {i \in DOMAIN stdout : stdout[i][1] = "Remounted "}

\* The run went past the early-exit check.
PastEarlyExit ==
  pc \in {"policy", "sysroot", "etc", "var", "exit"}
    \/ (Exited /\ (requests # <<>> \/ status = EXIT_FAILURE
                     \/ ~path_is_on_readonly_fs(Root)))

Rank(t) == IF t = Sysroot THEN 1 ELSE IF t = Etc THEN 2 ELSE 3

----------------------------------------------------------------------------
\* C1: when "/" is read-only at main's check, the run exits with status 0,
\* having requested no remount and printed nothing; the only mount call of
\* the run is the propagation-private call on /sysroot.
C1_EarlyExit ==
  (pc \notin {"touch", "privatize", "probe"} /\ path_is_on_readonly_fs(Root))
    => /\ Exited
       /\ status = EXIT_SUCCESS
       /\ requests = <<>>
       /\ RemountedLines = {}
       /\ Len(calls) = 1
       /\ IsPrivatize(calls[1])
       /\ \A k \in DOMAIN calls : ~IsRemount(calls[k])

\* An early exit taken although /sysroot and /var are read-only mounts.
C1_Witness ==
  /\ Exited
  /\ path_is_on_readonly_fs(Root)
  /\ status = EXIT_SUCCESS
  /\ kind[Sysroot] = "mount" /\ ST_RDONLY(Sysroot)
  /\ kind[Var] = "mount" /\ ST_RDONLY(Var)

\* C2: targets are requested in the order /sysroot, /etc, /var; every mount
\* call on /var follows every call on /sysroot and /etc; a run that reaches
\* exit (EXIT_SUCCESS) past the early exit ends with the /var request; and
\* the /var request always asks for writable = true.
C2_TargetOrdering ==
  /\ \A i, j \in DOMAIN requests :
       i < j => Rank(requests[i].target) < Rank(requests[j].target)
  /\ \A i, j \in DOMAIN calls :
       i < j => Rank(calls[i].target) <= Rank(calls[j].target)
  /\ \A i \in DOMAIN requests :
       requests[i].target = Var
         => /\ requests[i].writable = TRUE
            /\ i > 1
            /\ requests[1].target = Sysroot
  /\ (pc = "exit" \/ (Exited /\ status = EXIT_SUCCESS /\ PastEarlyExit))
       => /\ requests # <<>>
          /\ requests[Len(requests)].target = Var

\* A finished run in which both /sysroot and /var were remounted.
C2_Witness ==
  /\ Exited
  /\ Len(requests) = 2
  /\ requests[1].target = Sysroot /\ requests[1].outcome = "Applied"
  /\ requests[2].target = Var /\ requests[2].outcome = "Applied"

\* C3: a remount rejected with EINVAL is a benign no-op: it prints no
\* "Remounted" line for its target, it does not terminate the process (a
\* failure status needs a later, fatal call), and after an EINVAL on
\* /sysroot the run still requests /var and, absent a fatal error, exits 0.
C3_EinvalTolerated ==
  \A k \in DOMAIN calls :
    (IsRemount(calls[k]) /\ calls[k].res = "EINVAL")
      => /\ \A i \in DOMAIN stdout :
              ~RemountedLineFor(stdout[i], calls[k].target)
         /\ \E i \in DOMAIN requests :
              /\ requests[i].target = calls[k].target
              /\ requests[i].outcome = "NoOpNotAMountPoint"
         /\ status = EXIT_FAILURE
              => \E j \in DOMAIN calls :
                   j > k /\ calls[j].res \notin {"OK", "EINVAL"}
         /\ (calls[k].target = Sysroot /\ Exited)
              => \E i \in DOMAIN requests : requests[i].target = Var
         /\ (Exited /\ \A j \in DOMAIN calls :
                          IsRemount(calls[j]) => calls[j].res \in {"OK", "EINVAL"})
              => status = EXIT_SUCCESS

\* The /sysroot remount was rejected with EINVAL and the run went on to
\* remount /var and exit 0.
C3_Witness ==
  /\ Exited
  /\ status = EXIT_SUCCESS
  /\ Len(requests) = 2
  /\ requests[1].target = Sysroot
  /\ requests[1].outcome = "NoOpNotAMountPoint"
  /\ requests[2].outcome = "Applied"

\* C4: a remount failing with an errno other than EINVAL, or a failing /etc
\* bind mount, ends the process at once with a non-zero status: the failed
\* call is the last mount call, no line is printed for its target, and the
\* remounts applied before it stay in effect.
C4_FailStop ==
  /\ \A k \in DOMAIN calls :
       \/ (IsRemount(calls[k]) /\ calls[k].res \notin {"OK", "EINVAL"})
       \/ (IsBind(calls[k]) /\ calls[k].res # "OK")
       => /\ k = Len(calls)
          /\ Exited
          /\ status = EXIT_FAILURE
          /\ status # EXIT_SUCCESS
          /\ IsRemount(calls[k])
               => /\ requests[Len(requests)].target = calls[k].target
                  /\ requests[Len(requests)].outcome = "FatalError"
          /\ \A i \in DOMAIN stdout :
               ~RemountedLineFor(stdout[i], calls[k].target)
          /\ Cardinality(RemountedLines)
               = Cardinality({i \in DOMAIN requests :
                                requests[i].outcome = "Applied"})
  /\ \A i \in DOMAIN requests :
       requests[i].outcome = "Applied"
         => ~ST_RDONLY(requests[i].target) = requests[i].writable

\* /sysroot was remounted, then the /var remount failed fatally.
C4_Witness ==
  /\ Exited
  /\ status = EXIT_FAILURE
  /\ Len(requests) = 2
  /\ requests[1].outcome = "Applied"
  /\ requests[2].outcome = "FatalError"
  /\ ~ST_RDONLY(Sysroot)

\* C5 as stated: no mount call of any kind is issued on a target that is a
\* symbolic link.
C5_NoMountCallOnSymlink ==
  \A t \in Targets :
    kind[t] = "symlink" => \A k \in DOMAIN calls : calls[k].target # t

\* C5 amended: do_remount issues no mount call for a target that is a
\* symbolic link, so no remount and no bind call is ever made on it; the
\* only mount call a symlinked target can receive is main's
\* propagation-private call on /sysroot.
C5_NoRemountOnSymlink ==
  \A t \in Targets :
    kind[t] = "symlink"
      => /\ \A k \in DOMAIN calls :
              calls[k].target = t => IsPrivatize(calls[k])
         /\ \A i \in DOMAIN requests :
              requests[i].target = t
                => /\ requests[i].outcome = "NoOpSkippedSymlink"
                   /\ ~requests[i].called

\* /sysroot and /var are links into read-only mounts, and both requests
\* were made.
C5_Witness ==
  /\ Exited
  /\ kind[Sysroot] = "symlink" /\ ST_RDONLY(Sysroot)
  /\ kind[Var] = "symlink" /\ ST_RDONLY(Var)
  /\ Len(requests) = 2
  /\ Len(calls) = 1

\* Outcomes of do_remount that return before the state comparison.
EarlySkips == {"NoOpLstatFailed", "NoOpSkippedSymlink", "NoOpStatvfsFailed"}

AppliedRequests == {i \in DOMAIN requests : requests[i].outcome = "Applied"}

\* C6 as stated: of two successive do_remount calls with the same arguments
\* at most one is Applied and the second is a no-op that issues no mount
\* call.
C6_SecondCallNeverMounts ==
  /\ Cardinality(AppliedRequests) <= 1
  /\ \A i \in DOMAIN requests : i >= 2 => ~requests[i].called

\* C6 amended: successive do_remount calls with the same arguments are
\* Applied at most once; after an Applied call the next call returns at the
\* state comparison (NoOpAlreadyDesiredState) without a mount call; after a
\* skipped call the next call is skipped the same way; but after a call whose
\* mount was rejected with EINVAL the next call issues the mount call again.
C6_Idempotence ==
  /\ Cardinality(AppliedRequests) <= 1
  /\ \A i \in DOMAIN requests :
       i >= 2 =>
         LET prev == requests[i - 1]
             cur == requests[i]
         IN /\ cur.target = prev.target /\ cur.writable = prev.writable
            /\ prev.outcome = "Applied"
                 => cur.outcome = "NoOpAlreadyDesiredState" /\ ~cur.called
            /\ prev.outcome \in EarlySkips \cup {"NoOpAlreadyDesiredState"}
                 => cur.outcome = prev.outcome /\ ~cur.called
            /\ prev.outcome = "NoOpNotAMountPoint"
                 => cur.called /\ cur.outcome # "NoOpAlreadyDesiredState"
            /\ prev.outcome # "FatalError"

\* A second call made after the first one was Applied.
C6_Witness ==
  /\ Len(requests) >= 2
  /\ requests[1].outcome = "Applied"
  /\ requests[2].outcome = "NoOpAlreadyDesiredState"

\* C7: whatever the configuration file holds, main's sysroot_readonly is
\* false and /sysroot is requested writable; the "Ignoring sysroot.readonly
\* config" line is on standard output exactly when the file says
\* readonly = true.
C7_ConfigOverride ==
  /\ sysroot_readonly = FALSE
  /\ \A i \in DOMAIN requests :
       requests[i].target = Sysroot => requests[i].writable = TRUE
  /\ pc \in {"sysroot", "etc", "var", "exit"} \/ (Exited /\ PastEarlyExit)
       => /\ config = "true" => stdout # <<>> /\ stdout[1] = IgnoringLine
          /\ config # "true"
               => \A i \in DOMAIN stdout : stdout[i] # IgnoringLine

\* The file says readonly = true and /sysroot was nevertheless remounted
\* read-write.
C7_Witness ==
  /\ config = "true"
  /\ Exited
  /\ requests # <<>>
  /\ requests[1].target = Sysroot
  /\ requests[1].writable = TRUE
  /\ requests[1].outcome = "Applied"
  /\ stdout[1] = IgnoringLine

\* A fatal error: a remount failing with an errno other than EINVAL, or the
\* /etc bind mount failing.
FatalOccurred ==
  \E k \in DOMAIN calls :
    \/ (IsRemount(calls[k]) /\ calls[k].res \notin {"OK", "EINVAL"})
    \/ (IsBind(calls[k]) /\ calls[k].res # "OK")

\* C8: every run terminates; the exit status is non-zero exactly when a
\* fatal error occurred, and 0 otherwise (early exit included).
C8_ExitStatus ==
  /\ <>Exited
  /\ [](IF Exited
          THEN /\ status \in {EXIT_SUCCESS, EXIT_FAILURE}
               /\ (status # EXIT_SUCCESS) = FatalOccurred
          ELSE status = Running /\ ~FatalOccurred)

\* Exit 0 although the privatize call failed, /sysroot was skipped as a
\* symlink and the /var remount was rejected with EINVAL.
C8_Witness ==
  /\ Exited
  /\ status = EXIT_SUCCESS
  /\ calls[1].res # "OK"
  /\ Len(requests) = 2
  /\ requests[1].outcome = "NoOpSkippedSymlink"
  /\ requests[2].outcome = "NoOpNotAMountPoint"

C10_PathThenMode ==
  \A i \in DOMAIN stdout :
    /\ Len(stdout[i]) = 4
    /\ stdout[i][1] = "Remounted "
    /\ stdout[i][2] \in Targets
    /\ stdout[i][3] = ": "
    /\ stdout[i][4] \in {"rw", "ro"}

\* C10 amended: a status line reads "Remounted <rw|ro>: <path>": the mode
\* comes first and the target path second, and the mode is "rw" exactly when
\* the requested writability is true.
C10_ModeThenPath ==
  \A i \in DOMAIN stdout :
    /\ Len(stdout[i]) = 4
    /\ stdout[i][1] = "Remounted "
    /\ stdout[i][2] \in {"rw", "ro"}
    /\ stdout[i][3] = ": "
    /\ stdout[i][4] \in Targets
    /\ \E j \in AppliedRequests :
         /\ requests[j].target = stdout[i][4]
         /\ stdout[i][2] = "rw" <=> requests[j].writable

\* A line printed for a remount to read-only.
C10_Witness ==
  /\ stdout # <<>>
  /\ requests[1].outcome = "Applied"
  /\ requests[1].writable = FALSE
  /\ stdout[1] = <<"Remounted ", "ro", ": ", requests[1].target>>

\* C11: a failed propagation-private call on /sysroot only writes the
\* warning: the step always continues at the early-exit check with the
\* process alive, the mount table and standard output untouched, and the
\* exit status of the run is decided by the fatal errors alone, whatever the
\* result of the call was.
C11_PrivatizeNotFatal ==
  /\ [][pc = "privatize"
          => /\ pc' = "probe"
             /\ status' = Running
             /\ Len(calls') = 1 /\ IsPrivatize(calls'[1])
             /\ stderr' = IF calls'[1].res # "OK"
                            THEN <<PrivatizeWarning>> ELSE <<>>
             /\ UNCHANGED <<env, mntRO, sbRO, requests, stdout>>]_vars
  /\ [](pc \notin {"touch", "privatize"}
          => /\ calls # <<>> /\ IsPrivatize(calls[1])
             /\ (calls[1].res # "OK") = (stderr # <<>>
                                          /\ stderr[1] = PrivatizeWarning)
             /\ Exited => (status # EXIT_SUCCESS) = FatalOccurred
             /\ (Exited /\ status = EXIT_SUCCESS /\ PastEarlyExit)
                  => Len(requests) = 2)

\* The privatize call failed, and the run still remounted /sysroot and /var
\* and exited 0.
C11_Witness ==
  /\ Exited
  /\ status = EXIT_SUCCESS
  /\ calls[1].res = "EOTHER"
  /\ stderr = <<PrivatizeWarning>>
  /\ Len(requests) = 2
  /\ requests[1].outcome = "Applied"
  /\ requests[2].outcome = "Applied"

\* The do_remount invocation made by the current step, if it makes one.
NewRequest == requests'[Len(requests')]

\* C12: do_remount issues its mount call exactly when lstat succeeded, the
\* target is not a symbolic link, statvfs succeeded and the observed
\* writability differs from the desired one; the outcome names the first
\* rule that applied, and an invocation that issues no call changes
\* nothing: no mount call, no output, no termination, mount table untouched.
C12_SkipRules ==
  [][Len(requests') = Len(requests) + 1
       => LET t == NewRequest.target
              w == NewRequest.writable
          IN /\ NewRequest.called
                  = (/\ kind[t] # "missing"
                     /\ kind[t] # "symlink"
                     /\ kind[t] # "nostatvfs"
                     /\ w # ~ST_RDONLY(t))
             /\ NewRequest.called = (Len(calls') = Len(calls) + 1)
             /\ kind[t] = "missing" => NewRequest.outcome = "NoOpLstatFailed"
             /\ kind[t] = "symlink"
                  => NewRequest.outcome = "NoOpSkippedSymlink"
             /\ kind[t] = "nostatvfs"
                  => NewRequest.outcome = "NoOpStatvfsFailed"
             /\ (kind[t] \in {"dir", "mount"} /\ w = ~ST_RDONLY(t))
                  => NewRequest.outcome = "NoOpAlreadyDesiredState"
             /\ ~NewRequest.called
                  => /\ UNCHANGED <<calls, stdout, stderr, status, mntRO,
                                    sbRO>>
                     /\ pc' # "exited"]_vars

\* A call on a target whose statvfs fails returned without a mount call,
\* although the desired writability differs from what the root mount reports.
C12_Witness ==
  /\ Len(requests) >= 1
  /\ requests[1].outcome = "NoOpStatvfsFailed"
  /\ requests[1].writable = FALSE
  /\ ~requests[1].called
  /\ calls = <<>>
  /\ status = Running

\* C13: every remount call of do_remount mounts the target onto itself with
\* exactly the flags MS_REMOUNT and MS_SILENT, plus MS_RDONLY if and only if
\* the desired writability is false.
C13_FlagComposition ==
  /\ Len(calls) = Cardinality({i \in DOMAIN requests : requests[i].called})
  /\ \A k \in DOMAIN calls :
       /\ calls[k].source = calls[k].target
       /\ calls[k].target = requests[1].target
       /\ {MS_REMOUNT, MS_SILENT} \subseteq calls[k].flags
       /\ calls[k].flags \subseteq {MS_REMOUNT, MS_SILENT, MS_RDONLY}
       /\ (MS_RDONLY \in calls[k].flags) = (requests[1].writable = FALSE)

\* A successful remount to read-only, issued with MS_RDONLY.
C13_Witness ==
  /\ calls # <<>>
  /\ calls[1].res = "OK"
  /\ calls[1].flags = {MS_REMOUNT, MS_SILENT, MS_RDONLY}
  /\ requests[1].writable = FALSE
  /\ ST_RDONLY(requests[1].target)

\* The remount calls that succeeded, in the order they were issued.
SucceededRemounts ==
  SelectSeq(calls, LAMBDA c : IsRemount(c) /\ c.res = "OK")

\* The "Remounted" lines of standard output, in the order they were written.
RemountedOutput == SelectSeq(stdout, LAMBDA l : l[1] = "Remounted ")

\* The status line that belongs to a successful remount call.
LineOfCall(c) ==
  <<"Remounted ", IF MS_RDONLY \in c.flags THEN "ro" ELSE "rw", ": ",
    c.target>>

\* C14: the "Remounted" lines are, in order, the lines of the remount calls
\* that succeeded: none for a skipped target, an EINVAL rejection or a fatal
\* failure, and at most one per target.
C14_LinesMatchApplied ==
  /\ Len(RemountedOutput) = Len(SucceededRemounts)
  /\ \A i \in DOMAIN RemountedOutput :
       RemountedOutput[i] = LineOfCall(SucceededRemounts[i])
  /\ \A t \in Targets :
       /\ Cardinality({i \in DOMAIN RemountedOutput :
                         RemountedOutput[i][4] = t}) <= 1
       /\ (\E i \in DOMAIN RemountedOutput : RemountedOutput[i][4] = t)
            = (\E j \in DOMAIN requests :
                 requests[j].target = t /\ requests[j].outcome = "Applied")

\* /sysroot was rejected with EINVAL and printed nothing; /var was remounted
\* and is the only line, after the configuration notice.
C14_Witness ==
  /\ Exited
  /\ config = "true"
  /\ Len(calls) = 3
  /\ calls[2].target = Sysroot /\ calls[2].res = "EINVAL"
  /\ calls[3].target = Var /\ calls[3].res = "OK"
  /\ stdout = <<IgnoringLine, <<"Remounted ", "rw", ": ", Var>>>>

EtcBindCalls == {k \in DOMAIN calls : IsBind(calls[k])}

\* C15: /etc is bind-mounted and requested only when sysroot_readonly is
\* true, after the /sysroot request and before the /var request; the
\* self-bind of /etc precedes the remount of /etc to writable, and a failed
\* bind ends the process before /etc is requested.
C15_EtcFixupOrdering ==
  /\ \A k \in DOMAIN calls : calls[k].target = Etc => sysroot_readonly
  /\ \A i, j \in DOMAIN requests :
       i < j => Rank(requests[i].target) < Rank(requests[j].target)
  /\ \A i, j \in DOMAIN calls :
       i < j => Rank(calls[i].target) <= Rank(calls[j].target)
  /\ \A i \in DOMAIN requests :
       requests[i].target = Etc
         => /\ sysroot_readonly
            /\ requests[i].writable = TRUE
            /\ i = 2 /\ requests[1].target = Sysroot
            /\ \E k \in EtcBindCalls : calls[k].res = "OK"
  /\ Cardinality(EtcBindCalls) <= 1
  /\ \A k \in EtcBindCalls :
       /\ calls[k].source = Etc /\ calls[k].target = Etc
       /\ calls[k].flags = {MS_BIND}
       /\ requests # <<>> /\ requests[1].target = Sysroot
       /\ \A j \in DOMAIN calls :
            (IsRemount(calls[j]) /\ calls[j].target = Etc) => k < j
       /\ calls[k].res # "OK"
            => /\ k = Len(calls)
               /\ Exited /\ status = EXIT_FAILURE
               /\ \A i \in DOMAIN requests : requests[i].target # Etc
  /\ \A k \in DOMAIN calls :
       (IsRemount(calls[k]) /\ calls[k].target = Etc)
         => \E j \in EtcBindCalls : j < k /\ calls[j].res = "OK"
  /\ \A i \in DOMAIN requests :
       (requests[i].target = Var /\ sysroot_readonly)
         => i = 3 /\ requests[2].target = Etc
  /\ \A i \in DOMAIN requests :
       (requests[i].target = Var /\ ~sysroot_readonly) => i = 2

\* With sysroot_readonly true: /sysroot remounted read-only, /etc
\* bind-mounted and then remounted read-write, then /var remounted.
C15_Witness ==
  /\ sysroot_readonly
  /\ Exited
  /\ status = EXIT_SUCCESS
  /\ Len(calls) = 4
  /\ IsRemount(calls[1]) /\ calls[1].target = Sysroot /\ calls[1].res = "OK"
  /\ IsBind(calls[2]) /\ calls[2].res = "OK"
  /\ IsRemount(calls[3]) /\ calls[3].target = Etc /\ calls[3].res = "OK"
  /\ IsRemount(calls[4]) /\ calls[4].target = Var /\ calls[4].res = "OK"

\* C16: the program never makes anything read-only: every request of main
\* asks for writable = true, no mount call carries MS_RDONLY, and no step
\* turns a path that statvfs reports writable into a read-only one.
C16_NeverMakesReadOnly ==
  /\ [](/\ \A i \in DOMAIN requests : requests[i].writable = TRUE
        /\ \A k \in DOMAIN calls : MS_RDONLY \notin calls[k].flags)
  /\ [][\A p \in Paths : ~ST_RDONLY(p) => ~ST_RDONLY(p)']_vars

\* The file says readonly = true, and the run remounted a read-only
\* /sysroot and a read-only /var read-write.
C16_Witness ==
  /\ config = "true"
  /\ Exited
  /\ Len(calls) = 3
  /\ calls[2].flags = {MS_REMOUNT, MS_SILENT} /\ calls[2].res = "OK"
  /\ calls[3].flags = {MS_REMOUNT, MS_SILENT} /\ calls[3].res = "OK"
  /\ ~ST_RDONLY(Sysroot) /\ ~ST_RDONLY(Var)

RemountCallsOn(t) ==
  {k \in DOMAIN calls : IsRemount(calls[k]) /\ calls[k].target = t}

\* C17: whatever the configuration file holds, /etc is never requested and
\* receives no mount call, and no step changes what /etc is or the
\* read-only flags it has; a run issues at most three mount calls: the
\* privatize call first, at most one remount of /sysroot and at most one
\* remount of /var.
C17_EtcUntouched ==
  /\ [](/\ \A k \in DOMAIN calls : calls[k].target # Etc
        /\ \A k \in DOMAIN calls : ~IsBind(calls[k])
        /\ \A i \in DOMAIN requests : requests[i].target # Etc
        /\ Len(calls) <= 3
        /\ \A k \in DOMAIN calls :
             IF k = 1 THEN IsPrivatize(calls[k])
                      ELSE IsRemount(calls[k]) /\ calls[k].target \in {Sysroot, Var}
        /\ Cardinality(RemountCallsOn(Sysroot)) <= 1
        /\ Cardinality(RemountCallsOn(Var)) <= 1)
  /\ [][/\ kind'[Etc] = kind[Etc]
        /\ mntRO'[Etc] = mntRO[Etc]
        /\ fsOf'[Etc] = fsOf[Etc]
        /\ ST_RDONLY(Etc)' = ST_RDONLY(Etc)]_vars

\* /etc is a read-only mount of its own and the file says readonly = true:
\* the run made its three mount calls and /etc is still read-only.
C17_Witness ==
  /\ config = "true"
  /\ Exited
  /\ kind[Etc] = "mount"
  /\ mntRO[Etc]
  /\ ST_RDONLY(Etc)
  /\ Len(calls) = 3
  /\ Len(requests) = 2

\* C18: the marker step is the first thing a run does and it is done exactly
\* once: before it nothing has been called, requested or probed, and from
\* then on, through an early exit or a fatal abort alike, the step has been
\* invoked once.
C18_MarkerFirstAndOnce ==
  /\ pc = "touch"
       => /\ marker = 0
          /\ calls = <<>> /\ requests = <<>>
          /\ stdout = <<>> /\ stderr = <<>>
          /\ status = Running
  /\ pc # "touch" => marker = 1
  /\ (calls # <<>> \/ requests # <<>> \/ Exited) => marker = 1

\* A run that aborted on a fatal /sysroot remount error, the marker step
\* done once.
C18_Witness ==
  /\ Exited
  /\ status = EXIT_FAILURE
  /\ marker = 1
  /\ Len(requests) = 1
  /\ requests[1].outcome = "FatalError"

====
